---- MODULE Spec2Model ----
\* A model of JTest.h: the EXPECT_* macros, Test / Subbatch / Batch /
\* _TestRegistry_Container / TestRegistry, and the run of runAllTests().
\*
\* Strings that the code compares or measures (batch, subbatch and test names)
\* are sequences of character codes, so that std::map's ordering and
\* std::string::size() are computed and not assumed.  Text that is only
\* printed is a TLA+ string.
EXTENDS Integers, Sequences, FiniteSets, TLC

\* ------------------------------------------------------------------ bounds
\* number of registerTest calls made during static initialisation
MaxTests == 2
\* number of times main calls TestRegistry::runAllTests()
MaxRuns == 2
\* longest test body (in statements) of the body-level specification
MaxStmts == 2

\* ------------------------------------------------------------------ inputs
\* "aa", "b"   (GETFILE of two test files)
BatchNames == { <<97, 97>>, <<98>> }
\* "", "EQ"
SubNames == { << >>, <<69, 81>> }
\* "t", "u"
TestNames == { <<116>>, <<117>> }

NoThrow == "none"
\* dynamic types of thrown objects / ERR_TYPE arguments; runtime_error is
\* publicly derived from exception, int and double are unrelated to all.
Kinds == { "int", "double", "exception", "runtime_error" }
ThrownKinds == { "int", "runtime_error" }
ErrTypes == { "int", "double", "exception" }
Bases(k) == IF k = "runtime_error" THEN { "exception" } ELSE { }

\* The outcome of evaluating an expression or running an ACTION: it yields a
\* value or throws an object of some kind.
Value(v) == [throws |-> NoThrow, val |-> v]
Throw(k) == [throws |-> k, val |-> 0]
Operands == { Value(0), Value(1), Throw("int") }
Actions == { Value(0) } \cup { Throw(k) : k \in ThrownKinds }

\* One statement of a test body.
Stmt(op, errType, inp1, inp2) ==
  [op |-> op, errType |-> errType, inp1 |-> inp1, inp2 |-> inp2]
Expect_EQ(inp1, inp2) == Stmt("EXPECT_EQ", NoThrow, inp1, inp2)
Expect_TRUE(inp1) == Stmt("EXPECT_TRUE", NoThrow, inp1, Value(0))
Expect_FALSE(inp1) == Stmt("EXPECT_FALSE", NoThrow, inp1, Value(0))
Expect_LIFE(action) == Stmt("EXPECT_LIFE", NoThrow, action, Value(0))
Expect_DEATH(action) == Stmt("EXPECT_DEATH", NoThrow, action, Value(0))
Expect_ERRORTYPE(errType, action) ==
  Stmt("EXPECT_ERRORTYPE", errType, action, Value(0))
\* a statement of the body that is no assertion, such as  thrower();
Statement(action) == Stmt("STATEMENT", NoThrow, action, Value(0))

AssertionOps ==
  { "EXPECT_EQ", "EXPECT_TRUE", "EXPECT_FALSE",
    "EXPECT_LIFE", "EXPECT_DEATH", "EXPECT_ERRORTYPE" }

Stmts ==
  { Expect_EQ(a, b) : a \in Operands, b \in Operands }
    \cup { Expect_TRUE(a) : a \in Operands }
    \cup { Expect_FALSE(a) : a \in Operands }
    \cup { Expect_LIFE(a) : a \in Actions }
    \cup { Expect_DEATH(a) : a \in Actions }
    \cup { Expect_ERRORTYPE(e, a) : e \in ErrTypes, a \in Actions }
    \cup { Statement(a) : a \in Actions }

\* every test body of at most MaxStmts statements
AllBodies == UNION { [1..n -> Stmts] : n \in 0..MaxStmts }

\* The bodies registered under the full specification.
\* JTEST(addition)-like: every check holds
BodyPass == << Expect_EQ(Value(1), Value(1)), Expect_LIFE(Value(0)) >>
\* JTEST(multiply)-like: every check fails
BodyFail == << Expect_EQ(Value(1), Value(0)), Expect_TRUE(Value(0)) >>
\* a body that throws before any check has failed
BodyThrow == << Expect_DEATH(Throw("int")), Statement(Throw("int")) >>
\* a body that throws after a check has failed
BodyFailThrow == << Expect_FALSE(Value(1)), Statement(Throw("runtime_error")) >>
Funcs == { BodyPass, BodyFail, BodyThrow, BodyFailThrow }

\* ------------------------------------------------------------------ text
RUNNINGSTATUS == "[RUNNING]"
PASSEDSTATUS == "[PASSED]"
FAILEDSTATUS == "[FAILED]"
FLAWEDSTATUS == "[FLAWED]"
COMPLETESTATUSF == "[RESULT]\tSome tests failed."
COMPLETESTATUSP == "[RESULT]\tAll test passed!"
CONSOLECLEARLASTLINE == "\\033[A\\033[2K"

\* std::to_string of a non-negative int
RECURSIVE to_string(_)
to_string(n) ==
  LET digit == <<"0", "1", "2", "3", "4", "5", "6", "7", "8", "9">>
  IN IF n < 10 THEN digit[n + 1]
     ELSE to_string(n \div 10) \o digit[(n % 10) + 1]

\* std::string(n, '-')
RECURSIVE Dashes(_)
Dashes(n) == IF n <= 0 THEN "" ELSE "-" \o Dashes(n - 1)

\* one item written to std::cout
Line(tag, name, mid) == [tag |-> tag, name |-> name, mid |-> mid]

\* ------------------------------------------------------------------ std::map
\* std::string operator<
RECURSIVE LexLess(_, _)
LexLess(x, y) ==
  IF y = << >> THEN FALSE
  ELSE IF x = << >> THEN TRUE
  ELSE IF Head(x) # Head(y) THEN Head(x) < Head(y)
  ELSE LexLess(Tail(x), Tail(y))

\* mutant: the map compares its keys with std::greater
RECURSIVE MapOrder_Descending(_)
MapOrder_Descending(keys) ==
  IF keys = { } THEN << >>
  ELSE LET first == CHOOSE x \in keys : \A y \in keys \ {x} : LexLess(y, x)
       IN <<first>> \o MapOrder_Descending(keys \ {first})

\* the keys of a std::map<std::string, _> in the order a range-for visits them
RECURSIVE MapOrder(_)
MapOrder(keys) ==
  IF keys = { } THEN << >>
  ELSE LET first == CHOOSE x \in keys : \A y \in keys \ {x} : LexLess(x, y)
       IN <<first>> \o MapOrder(keys \ {first})

\* ------------------------------------------------------------------ state
VARIABLES
  batches,       \* TestRegistry::getInstance().tests.batches
  calls,         \* history: per (batch, subbatch), the names passed to registerTest
  jtests,        \* number of JTEST definitions whose dummy_ initialiser has yet to run
  lastCall,      \* history: the registerTest call the last step made, if it made one
  rpc,           \* where the program is: "static_init", "main", or inside a run
  runs,          \* number of runAllTests() calls started
  bq,            \* _TestRegistry_Container::run: batches still to visit (first = current)
  cFailures,     \* _TestRegistry_Container::run: failures
  sq,            \* Batch::run: subbatches still to visit (first = current)
  printSBNames,  \* Batch::run: printSBNames
  bFailures,     \* Batch::run: failures
  ti,            \* Subbatch::run: index of the current test in tests
  sFailures,     \* Subbatch::run: failures
  fatal,         \* Subbatch::run: fatal
  pc,            \* index of the next statement of the running test body
  entryFailed,   \* history: nrOfTestsFailed of the current test when its body started
  out,           \* everything written to std::cout
  terseOut,      \* what a build with TERSE defined has written in the current run
  results,       \* history: per (run, batch, subbatch, index), what the run made of the test
  executed,      \* history: per (run, batch, subbatch, index), how often the body was entered
  visited,       \* history: the tests whose bodies the current run has entered, in order
  failedTests    \* TestRegistry::runAllTests: failedTests of the last finished run

vars ==
  << batches, calls, jtests, lastCall, rpc, runs, bq, cFailures, sq,
     printSBNames, bFailures, ti, sFailures, fatal, pc, entryFailed, out,
     terseOut, results, executed, visited, failedTests >>

registryVars == << batches, calls, jtests, lastCall >>
containerVars == << bq, cFailures >>
batchVars == << sq, printSBNames, bFailures >>
subbatchVars == << ti, sFailures, fatal >>
historyVars == << results, executed, visited >>

\* ------------------------------------------------------------------ registry
Test(name, func) == [name |-> name, func |-> func, nrOfTestsFailed |-> 0]

Subbatch_addTest(subbatch, test) ==
  [subbatch EXCEPT !.tests = Append(@, test)]

\* mutant: subbatches[sbatchname] = Subbatch{} also when the subbatch exists
Batch_addTest_Overwrites(batch, sbatchname, test) ==
  LET created ==
        IF sbatchname \in DOMAIN batch.subbatches
        THEN [batch EXCEPT !.subbatches[sbatchname] = [tests |-> << >>]]
        ELSE [batch EXCEPT !.subbatches = (sbatchname :> [tests |-> << >>]) @@ @]
  IN [created EXCEPT !.subbatches[sbatchname] =
        [@ EXCEPT !.tests = Append(@, test)]]

Batch_addTest(batch, sbatchname, test) ==
  IF sbatchname \notin DOMAIN batch.subbatches
  THEN LET created ==
             [batch EXCEPT !.subbatches = (sbatchname :> [tests |-> << >>]) @@ @]
       IN [created EXCEPT !.subbatches[sbatchname] = Subbatch_addTest(@, test)]
  ELSE [batch EXCEPT !.subbatches[sbatchname] = Subbatch_addTest(@, test)]

\* mutant: a new batch is created and the call returns without adding the test
Container_addTest_CreatesOnly(container, batchname, sbatchname, test) ==
  IF batchname \notin DOMAIN container
  THEN (batchname :> [subbatches |-> << >>]) @@ container
  ELSE [container EXCEPT ![batchname] = Batch_addTest(@, sbatchname, test)]

Container_addTest(container, batchname, sbatchname, test) ==
  IF batchname \notin DOMAIN container
  THEN LET created == (batchname :> [subbatches |-> << >>]) @@ container
       IN [created EXCEPT ![batchname] = Batch_addTest(@, sbatchname, test)]
  ELSE [container EXCEPT ![batchname] = Batch_addTest(@, sbatchname, test)]

\* the tests stored in the registry, as (batch, subbatch, index) triples
StoredTests(container) ==
  UNION { UNION { { <<b, s, i>> : i \in 1..Len(container[b].subbatches[s].tests) } :
                  s \in DOMAIN container[b].subbatches } :
          b \in DOMAIN container }

RECURSIVE Flatten(_)
Flatten(seqs) == IF seqs = << >> THEN << >> ELSE Head(seqs) \o Flatten(Tail(seqs))

\* the tests in the order the three nested range-for loops of
\* _TestRegistry_Container::run, Batch::run and Subbatch::run reach them
VisitSeq(container) ==
  LET inSubbatch(b, sb) ==
        [i \in 1..Len(container[b].subbatches[sb].tests) |-> <<b, sb, i>>]
      inBatch(b) ==
        LET order == MapOrder(DOMAIN container[b].subbatches)
        IN Flatten([j \in 1..Len(order) |-> inSubbatch(b, order[j])])
      order == MapOrder(DOMAIN container)
  IN Flatten([j \in 1..Len(order) |-> inBatch(order[j])])

NoCalls == [k \in BatchNames \X SubNames |-> << >>]

RECURSIVE SumLen(_, _)
SumLen(f, keys) ==
  IF keys = { } THEN 0
  ELSE LET k == CHOOSE x \in keys : TRUE
       IN Len(f[k]) + SumLen(f, keys \ {k})

NrCalls == SumLen(calls, DOMAIN calls)

\* a registerTest call: the macro that made it, its batch and its test name
Call(macro, batchname, name) == [macro |-> macro, batchname |-> batchname, name |-> name]
NoCall == Call("none", << >>, << >>)

\* TestRegistry::registerTest(batchname, sbatchname, Test&&), called by the
\* dummy_ initialiser of JTEST(subbatchname, testname) before main starts
registerTest(batchname, sbatchname, name, func) ==
  /\ rpc = "static_init"
  /\ jtests > 0
  /\ jtests' = jtests - 1
  /\ batches' = Container_addTest(batches, batchname, sbatchname, Test(name, func))
  /\ calls' = [calls EXCEPT ![<<batchname, sbatchname>>] = Append(@, name)]
  /\ lastCall' = Call("JTEST2", batchname, name)
  /\ UNCHANGED << rpc, runs, containerVars, batchVars, subbatchVars, pc,
                  entryFailed, out, terseOut, historyVars, failedTests >>

\* TestRegistry::registerTest(batchname, Test), called by JTEST(testname)
registerTestMisc(batchname, name, func) ==
  /\ rpc = "static_init"
  /\ jtests > 0
  /\ jtests' = jtests - 1
  /\ batches' = Container_addTest(batches, batchname, << >>, Test(name, func))
  /\ calls' = [calls EXCEPT ![<<batchname, << >> >>] = Append(@, name)]
  /\ lastCall' = Call("JTEST1", batchname, name)
  /\ UNCHANGED << rpc, runs, containerVars, batchVars, subbatchVars, pc,
                  entryFailed, out, terseOut, historyVars, failedTests >>

\* ------------------------------------------------------------------ EXPECT_*
\* What a statement does to _t.nrOfTestsFailed, and the kind of the object it
\* lets escape (NoThrow: control reaches the next statement).
Outcome(nr, thrown) == [nrOfTestsFailed |-> nr, thrown |-> thrown]

\* mutant: a failing EXPECT_EQ leaves the body (an ASSERT in place of an EXPECT)
EXPECT_EQ_Aborts(nr, inp1, inp2) ==
  LET throwing == { x \in {inp1, inp2} : x.throws # NoThrow }
  IN IF throwing # { } THEN { Outcome(nr, x.throws) : x \in throwing }
     ELSE IF inp1.val # inp2.val THEN { Outcome(nr + 1, "int") }
     ELSE { Outcome(nr, NoThrow) }

\* The operands are evaluated in the body, outside any try block; which of two
\* throwing operands is evaluated first is unspecified.
EXPECT_EQ(nr, inp1, inp2) ==
  LET throwing == { x \in {inp1, inp2} : x.throws # NoThrow }
  IN IF throwing # { } THEN { Outcome(nr, x.throws) : x \in throwing }
     ELSE IF inp1.val # inp2.val THEN { Outcome(nr + 1, NoThrow) }
     ELSE { Outcome(nr, NoThrow) }

\* mutant: _t.nrOfTestsFailed = 1 in place of ++_t.nrOfTestsFailed
EXPECT_TRUE_SetsFlag(nr, inp1) ==
  IF inp1.throws # NoThrow THEN { Outcome(nr, inp1.throws) }
  ELSE IF inp1.val = 0 THEN { Outcome(1, NoThrow) }
  ELSE { Outcome(nr, NoThrow) }

EXPECT_TRUE(nr, inp1) ==
  IF inp1.throws # NoThrow THEN { Outcome(nr, inp1.throws) }
  ELSE IF inp1.val = 0 THEN { Outcome(nr + 1, NoThrow) }
  ELSE { Outcome(nr, NoThrow) }

EXPECT_FALSE(nr, inp1) ==
  IF inp1.throws # NoThrow THEN { Outcome(nr, inp1.throws) }
  ELSE IF inp1.val # 0 THEN { Outcome(nr + 1, NoThrow) }
  ELSE { Outcome(nr, NoThrow) }

\* mutant: the handler of EXPECT_LIFE is  catch (int &)
EXPECT_LIFE_IntOnly(nr, action) ==
  IF action.throws = "int" THEN { Outcome(nr + 1, NoThrow) }
  ELSE { Outcome(nr, action.throws) }

\* try { ACTION; } catch (...) { ++_t.nrOfTestsFailed; }
EXPECT_LIFE(nr, action) ==
  IF action.throws # NoThrow THEN { Outcome(nr + 1, NoThrow) }
  ELSE { Outcome(nr, NoThrow) }

\* mutant: the increment of EXPECT_DEATH sits after the try block
EXPECT_DEATH_CountsAlways(nr, action) == { Outcome(nr + 1, NoThrow) }

\* try { ACTION; ++_t.nrOfTestsFailed; } catch (...) { }
EXPECT_DEATH(nr, action) ==
  IF action.throws # NoThrow THEN { Outcome(nr, NoThrow) }
  ELSE { Outcome(nr + 1, NoThrow) }

\* catch (ERR_TYPE & e): the handler matches an object of type ERR_TYPE or of
\* a class publicly derived from it
Catches(errType, thrown) == thrown = errType \/ errType \in Bases(thrown)

\* mutant: EXPECT_ERRORTYPE without its  catch (...)  handler
EXPECT_ERRORTYPE_NoCatchAll(nr, errType, action) ==
  IF action.throws = NoThrow THEN { Outcome(nr + 1, NoThrow) }
  ELSE IF action.throws = errType \/ errType \in Bases(action.throws)
       THEN { Outcome(nr, NoThrow) }
  ELSE { Outcome(nr, action.throws) }

\* try { ACTION; ++_t.nrOfTestsFailed; } catch (ERR_TYPE & e) { }
\* catch (...) { ++_t.nrOfTestsFailed; }
EXPECT_ERRORTYPE(nr, errType, action) ==
  IF action.throws = NoThrow THEN { Outcome(nr + 1, NoThrow) }
  ELSE IF Catches(errType, action.throws) THEN { Outcome(nr, NoThrow) }
  ELSE { Outcome(nr + 1, NoThrow) }

\* a statement of the body that is no assertion
STATEMENT(nr, action) == { Outcome(nr, action.throws) }

ExecStmt(nr, stmt) ==
  CASE stmt.op = "EXPECT_EQ" -> EXPECT_EQ(nr, stmt.inp1, stmt.inp2)
    [] stmt.op = "EXPECT_TRUE" -> EXPECT_TRUE(nr, stmt.inp1)
    [] stmt.op = "EXPECT_FALSE" -> EXPECT_FALSE(nr, stmt.inp1)
    [] stmt.op = "EXPECT_LIFE" -> EXPECT_LIFE(nr, stmt.inp1)
    [] stmt.op = "EXPECT_DEATH" -> EXPECT_DEATH(nr, stmt.inp1)
    [] stmt.op = "EXPECT_ERRORTYPE" -> EXPECT_ERRORTYPE(nr, stmt.errType, stmt.inp1)
    [] stmt.op = "STATEMENT" -> STATEMENT(nr, stmt.inp1)

\* ------------------------------------------------------------------ Subbatch::run
\* mutant: the handler of Subbatch::run is  catch (int &)
TestBoundaryCatches_IntOnly(thrown) == thrown = "int"

\* try { test.func(test); } catch (...) { fatal = true; }
TestBoundaryCatches(thrown) == TRUE

\* mutant: the fatal branch is missing
StatusOf_NoFlawed(nrOfTestsFailed, isFatal) ==
  IF nrOfTestsFailed # 0 THEN FAILEDSTATUS ELSE PASSEDSTATUS

\* the status tag printed for a test
StatusOf(nrOfTestsFailed, isFatal) ==
  IF nrOfTestsFailed # 0 THEN FAILEDSTATUS
  ELSE IF isFatal THEN FLAWEDSTATUS
  ELSE PASSEDSTATUS

\* mutant: --failures whenever no check failed, fatal or not
FailuresAfter_IgnoresFatal(failures, nrOfTestsFailed, isFatal) ==
  IF nrOfTestsFailed # 0 THEN failures ELSE failures - 1

\* failures after the status of a test has been printed
FailuresAfter(failures, nrOfTestsFailed, isFatal) ==
  IF nrOfTestsFailed # 0 THEN failures
  ELSE IF isFatal THEN failures
  ELSE failures - 1

\* mutant: failures = <what the run returned>
Accumulate_Overwrite(failures, returned) == returned

\* failures += <what the run of a subbatch or batch returned>
Accumulate(failures, returned) == failures + returned

\* mutant: the count is printed as a flag
Mid_CountAsFlag(nrOfTestsFailed, isFatal) ==
  IF isFatal THEN "test threw exception"
  ELSE (IF nrOfTestsFailed # 0 THEN to_string(1) ELSE "no") \o " check(s) failed"

\* mid
Mid(nrOfTestsFailed, isFatal) ==
  IF isFatal THEN "test threw exception"
  ELSE (IF nrOfTestsFailed # 0 THEN to_string(nrOfTestsFailed) ELSE "no")
         \o " check(s) failed"

\* mutant: a passed test only has its RUNNING line cleared
StatusLines_QuietPass(status, name, mid) ==
  IF status = PASSEDSTATUS
  THEN << Line(CONSOLECLEARLASTLINE, << >>, "") >>
  ELSE << Line(CONSOLECLEARLASTLINE, << >>, ""), Line(status, name, mid) >>

\* what Subbatch::run writes once the body of a test is over
StatusLines(status, name, mid) ==
  << Line(CONSOLECLEARLASTLINE, << >>, ""), Line(status, name, mid) >>

\* ------------------------------------------------------------------ TERSE
\* JTest.h as given has no TERSE branch; what a TERSE build prints is taken
\* from the description of the mode: only failing and flawed tests get a line,
\* and a group (batch) in which nothing failed gets one summary line.
TerseItem(group, line) == [group |-> group, line |-> line]

\* the status line of a test
TerseStatus(group, status, name, mid) ==
  IF status = PASSEDSTATUS THEN << >>
  ELSE << TerseItem(group, Line(status, name, mid)) >>

\* the end of a group
TerseGroupSummary(group, failures) ==
  IF failures = 0
  THEN << TerseItem(group, Line(PASSEDSTATUS, group, "all tests passed")) >>
  ELSE << >>

\* the verdict is the one of the full mode
TerseVerdict(verdict) == << TerseItem(<< >>, verdict) >>

\* ------------------------------------------------------------------ the run
\* mutant: the counters are kept per test name
SetNrOfTestsFailed_ByName(container, b, s, i, nr) ==
  LET name == container[b].subbatches[s].tests[i].name
  IN [x \in DOMAIN container |->
       [subbatches |->
         [y \in DOMAIN container[x].subbatches |->
           [tests |->
             [j \in 1..Len(container[x].subbatches[y].tests) |->
               IF container[x].subbatches[y].tests[j].name = name
               THEN [container[x].subbatches[y].tests[j]
                       EXCEPT !.nrOfTestsFailed = nr]
               ELSE container[x].subbatches[y].tests[j]]]]]]

\* ++_t.nrOfTestsFailed: _t is the Test stored at (batch, subbatch, index)
SetNrOfTestsFailed(container, b, s, i, nr) ==
  [container EXCEPT ![b].subbatches[s].tests[i].nrOfTestsFailed = nr]

CurBatch == batches[Head(bq)]
CurSubbatch == CurBatch.subbatches[Head(sq)]
CurTest == CurSubbatch.tests[ti]
\* the current test as the history variables name it
CurKey == << runs, Head(bq), Head(sq), ti >>

\* maxBatchSizeName after the first loop of _TestRegistry_Container::run
RECURSIVE MaxBatchSizeName(_)
MaxBatchSizeName(names) ==
  IF names = { } THEN 0
  ELSE LET n == CHOOSE x \in names : TRUE
           rest == MaxBatchSizeName(names \ {n})
       IN IF rest > Len(n) THEN rest ELSE Len(n)

\* std::string(maxBatchSizeName - normalSize, '-')
batchNameExtension(normalSize) ==
  Dashes(MaxBatchSizeName(DOMAIN batches) - normalSize)

\* mutant: subbatches.size() > 1 alone
PrintSBNames_SizeOnly(subbatches) ==
  IF DOMAIN subbatches = { } THEN BOOLEAN
  ELSE { Cardinality(DOMAIN subbatches) > 1 }

\* subbatches.size() > 1 || (*subbatches.begin()).first.size() != 0
\* (on an empty map the second operand reads through end(): any value)
PrintSBNames(subbatches) ==
  IF DOMAIN subbatches = { } THEN BOOLEAN
  ELSE { \/ Cardinality(DOMAIN subbatches) > 1
         \/ Len(MapOrder(DOMAIN subbatches)[1]) # 0 }

\* "MISC", shown for the subbatch whose name is empty
MISC == <<77, 73, 83, 67>>

\* main calls TestRegistry::runAllTests(): _TestRegistry_Container::run starts
runAllTests ==
  /\ rpc \in { "static_init", "main" }
  /\ jtests = 0
  /\ runs < MaxRuns
  /\ runs' = runs + 1
  /\ bq' = MapOrder(DOMAIN batches)
  /\ cFailures' = 0
  /\ rpc' = "container"
  /\ lastCall' = NoCall
  /\ terseOut' = << >>
  /\ visited' = << >>
  /\ UNCHANGED << batches, calls, jtests, batchVars, subbatchVars, pc,
                  entryFailed, out, results, executed, failedTests >>

\* _TestRegistry_Container::run, second loop: the header of the next batch,
\* then Batch::run starts
Container_run_next ==
  /\ rpc = "container"
  /\ bq # << >>
  /\ out' = Append(out, Line("----", Head(bq), batchNameExtension(Len(Head(bq)))))
  /\ printSBNames' \in PrintSBNames(CurBatch.subbatches)
  /\ bFailures' = 0
  /\ sq' = MapOrder(DOMAIN CurBatch.subbatches)
  /\ rpc' = "batch"
  /\ UNCHANGED << registryVars, runs, containerVars, subbatchVars, pc,
                  entryFailed, terseOut, historyVars, failedTests >>

\* _TestRegistry_Container::run returns failures; runAllTests prints the verdict
runAllTests_return ==
  /\ rpc = "container"
  /\ bq = << >>
  /\ failedTests' = cFailures
  /\ LET verdict == Line(IF cFailures = 0 THEN COMPLETESTATUSP
                                           ELSE COMPLETESTATUSF, << >>, "")
     IN /\ out' = Append(out, verdict)
        /\ terseOut' = terseOut \o TerseVerdict(verdict)
  /\ rpc' = "main"
  /\ UNCHANGED << registryVars, runs, containerVars, batchVars, subbatchVars,
                  pc, entryFailed, historyVars >>

\* Batch::run, loop: the header of the next subbatch, then Subbatch::run starts
Batch_run_next ==
  /\ rpc = "batch"
  /\ sq # << >>
  /\ out' = IF printSBNames
            THEN Append(out, Line("<>", IF Len(Head(sq)) = 0 THEN MISC
                                                              ELSE Head(sq), ""))
            ELSE out
  /\ sFailures' = Len(CurSubbatch.tests)
  /\ ti' = 1
  /\ rpc' = "subbatch"
  /\ UNCHANGED << registryVars, runs, containerVars, batchVars, fatal, pc,
                  entryFailed, terseOut, historyVars, failedTests >>

\* Batch::run returns failures to _TestRegistry_Container::run
Batch_run_return ==
  /\ rpc = "batch"
  /\ sq = << >>
  /\ cFailures' = Accumulate(cFailures, bFailures)
  /\ bq' = Tail(bq)
  /\ rpc' = "container"
  /\ terseOut' = terseOut \o TerseGroupSummary(Head(bq), bFailures)
  /\ UNCHANGED << registryVars, runs, batchVars, subbatchVars, pc, entryFailed,
                  out, historyVars, failedTests >>

\* Subbatch::run, loop: the RUNNING line of the next test, then its body starts
Subbatch_run_next ==
  /\ rpc = "subbatch"
  /\ ti <= Len(CurSubbatch.tests)
  /\ fatal' = FALSE
  /\ out' = Append(out, Line(RUNNINGSTATUS, CurTest.name, ""))
  /\ pc' = 1
  /\ entryFailed' = CurTest.nrOfTestsFailed
  /\ executed' = IF CurKey \in DOMAIN executed
                 THEN [executed EXCEPT ![CurKey] = @ + 1]
                 ELSE (CurKey :> 1) @@ executed
  /\ visited' = Append(visited, << Head(bq), Head(sq), ti >>)
  /\ rpc' = "body"
  /\ UNCHANGED << registryVars, runs, containerVars, batchVars, ti, sFailures,
                  terseOut, results, failedTests >>

\* mutant: tests.clear() before Subbatch::run returns
Subbatch_run_return_Discards ==
  /\ rpc = "subbatch"
  /\ ti > Len(CurSubbatch.tests)
  /\ out' = Append(out, Line("", << >>, ""))
  /\ bFailures' = Accumulate(bFailures, sFailures)
  /\ sq' = Tail(sq)
  /\ rpc' = "batch"
  /\ batches' = [batches EXCEPT ![Head(bq)].subbatches[Head(sq)].tests = << >>]
  /\ UNCHANGED << calls, jtests, lastCall, runs, containerVars, printSBNames,
                  subbatchVars, pc, entryFailed, terseOut, historyVars,
                  failedTests >>

\* Subbatch::run prints the empty line and returns failures to Batch::run
Subbatch_run_return ==
  /\ rpc = "subbatch"
  /\ ti > Len(CurSubbatch.tests)
  /\ out' = Append(out, Line("", << >>, ""))
  /\ bFailures' = Accumulate(bFailures, sFailures)
  /\ sq' = Tail(sq)
  /\ rpc' = "batch"
  /\ UNCHANGED << registryVars, runs, containerVars, printSBNames, subbatchVars,
                  pc, entryFailed, terseOut, historyVars, failedTests >>

\* test.func(test): the next statement of the body.  An object the statement
\* lets escape leaves the body and reaches the handler of Subbatch::run.
ExecStatement ==
  /\ rpc = "body"
  /\ pc <= Len(CurTest.func)
  /\ \E o \in ExecStmt(CurTest.nrOfTestsFailed, CurTest.func[pc]) :
       /\ batches' = SetNrOfTestsFailed(batches, Head(bq), Head(sq), ti,
                                        o.nrOfTestsFailed)
       /\ IF o.thrown = NoThrow
          THEN /\ pc' = pc + 1
               /\ UNCHANGED << rpc, fatal >>
          ELSE /\ pc' = pc
               /\ IF TestBoundaryCatches(o.thrown)
                  THEN fatal' = TRUE /\ rpc' = "classify"
                  ELSE fatal' = fatal /\ rpc' = "terminated"
  /\ UNCHANGED << calls, jtests, lastCall, runs, containerVars, batchVars, ti,
                  sFailures, entryFailed, out, terseOut, historyVars, failedTests >>

\* test.func(test) returns
Body_return ==
  /\ rpc = "body"
  /\ pc > Len(CurTest.func)
  /\ rpc' = "classify"
  /\ UNCHANGED << registryVars, runs, containerVars, batchVars, subbatchVars,
                  pc, entryFailed, out, terseOut, historyVars, failedTests >>

\* Subbatch::run, after the try block: the status line of the test
Classify ==
  /\ rpc = "classify"
  /\ LET nr == CurTest.nrOfTestsFailed
         status == StatusOf(nr, fatal)
         mid == Mid(nr, fatal)
     IN /\ out' = out \o StatusLines(status, CurTest.name, mid)
        /\ terseOut' = terseOut \o TerseStatus(Head(bq), status, CurTest.name, mid)
        /\ sFailures' = FailuresAfter(sFailures, nr, fatal)
        /\ results' = (CurKey :>
                         [status |-> status, mid |-> mid, fatal |-> fatal,
                          nrOfTestsFailed |-> nr, entryFailed |-> entryFailed,
                          func |-> CurTest.func, reached |-> pc,
                          counted |-> sFailures' = sFailures]) @@ results
  /\ ti' = ti + 1
  /\ rpc' = "subbatch"
  /\ UNCHANGED << registryVars, runs, containerVars, batchVars, fatal, pc,
                  entryFailed, executed, visited, failedTests >>

\* ------------------------------------------------------------------ specifications
InitRun ==
  /\ rpc = "static_init"
  /\ runs = 0
  /\ bq = << >>
  /\ cFailures = 0
  /\ sq = << >>
  /\ printSBNames = FALSE
  /\ bFailures = 0
  /\ ti = 1
  /\ sFailures = 0
  /\ fatal = FALSE
  /\ pc = 1
  /\ entryFailed = 0
  /\ out = << >>
  /\ terseOut = << >>
  /\ results = << >>
  /\ executed = << >>
  /\ visited = << >>
  /\ lastCall = NoCall
  /\ failedTests = 0

\* a program of at most MaxTests JTEST definitions, before its first dummy_
\* initialiser has run
Init ==
  /\ batches = << >>
  /\ calls = NoCalls
  /\ jtests \in 0..MaxTests
  /\ InitRun

Run ==
  \/ runAllTests
  \/ Container_run_next
  \/ runAllTests_return
  \/ Batch_run_next
  \/ Batch_run_return
  \/ Subbatch_run_next
  \/ Subbatch_run_return
  \/ ExecStatement
  \/ Body_return
  \/ Classify

Next ==
  \/ \E b \in BatchNames, s \in SubNames, n \in TestNames, f \in Funcs :
       registerTest(b, s, n, f)
  \/ \E b \in BatchNames, n \in TestNames, f \in Funcs :
       registerTestMisc(b, n, f)
  \/ Run

Spec == Init /\ [][Next]_vars

\* A program of one test file holding one JTEST(testname) { body }, for every
\* body of at most MaxStmts statements, after static initialisation.
InitBody ==
  /\ \E f \in AllBodies :
       batches = Container_addTest(<< >>, <<98>>, << >>, Test(<<116>>, f))
  /\ calls = [NoCalls EXCEPT ![<< <<98>>, << >> >>] = << <<116>> >>]
  /\ jtests = 0
  /\ InitRun

SpecBody == InitBody /\ [][Run]_vars

\* A program of MaxTests + 1 JTEST definitions whose bodies all pass: enough
\* tests to fill two batches and to put two tests into one subbatch.
InitOrder ==
  /\ batches = << >>
  /\ calls = NoCalls
  /\ jtests = MaxTests + 1
  /\ InitRun

NextOrder ==
  \/ \E b \in BatchNames, s \in SubNames, n \in TestNames :
       registerTest(b, s, n, BodyPass)
  \/ \E b \in BatchNames, n \in TestNames :
       registerTestMisc(b, n, BodyPass)
  \/ Run

SpecOrder == InitOrder /\ [][NextOrder]_vars

\* A program of two JTEST definitions in which a run that has started goes on:
\* runAllTests is one call on one thread and every step of it terminates.
InitLive ==
  /\ batches = << >>
  /\ calls = NoCalls
  /\ jtests = 2
  /\ InitRun

InRunStep == rpc \notin { "static_init", "main" } /\ Run

SpecLive == InitLive /\ [][Next]_vars /\ WF_vars(InRunStep)

\* ------------------------------------------------------------------ claims
\* the run r has finished
Finished(r) == r >= 1 /\ (r < runs \/ (r = runs /\ rpc = "main"))
\* the results of run r
RunResults(r) == { k \in DOMAIN results : k[1] = r }
\* the test (batch, subbatch, index) as run r names it
KeyOf(r, t) == << r, t[1], t[2], t[3] >>

\* C1: a test whose body lets an error escape is reported with the FLAWED
\* tag, whatever its failure counter is when the error escapes.
C1_EscapeIsFlawed ==
  \A k \in DOMAIN results :
    results[k].fatal => results[k].status = FLAWEDSTATUS

\* C2: a test whose body completes with counter k > 0 and no escaping error
\* is reported FAILED with "k check(s) failed" and stays in the failing count.
C2_FailedWithCount ==
  \A k \in DOMAIN results :
    LET r == results[k]
    IN (~r.fatal /\ r.nrOfTestsFailed > 0) =>
         /\ r.status = FAILEDSTATUS
         /\ r.mid = to_string(r.nrOfTestsFailed) \o " check(s) failed"
         /\ r.counted

C2_Witness ==
  \E k \in DOMAIN results :
    /\ ~results[k].fatal
    /\ results[k].nrOfTestsFailed = 2
    /\ results[k].status = FAILEDSTATUS
    /\ results[k].mid = "2 check(s) failed"

\* C3: a test whose body completes with counter 0 and no escaping error is
\* reported PASSED, and PASSED tests are the only ones taken out of the
\* failing count.
C3_PassedOnlyUncounted ==
  \A k \in DOMAIN results :
    LET r == results[k]
    IN /\ (~r.fatal /\ r.nrOfTestsFailed = 0) =>
            (r.status = PASSEDSTATUS /\ ~r.counted)
       /\ ~r.counted => r.status = PASSEDSTATUS

C3_Witness ==
  \E k, j \in DOMAIN results :
    /\ k[1] = j[1]
    /\ results[k].status = PASSEDSTATUS /\ ~results[k].counted
    /\ results[j].status = FLAWEDSTATUS /\ results[j].counted

\* C4: an error escaping a test body never leaves Subbatch::run, and in every
\* finished run every registered test has been executed exactly once.
C4_ErrorContained ==
  /\ rpc # "terminated"
  /\ \A k \in DOMAIN executed : executed[k] = 1
  /\ \A r \in 1..runs :
       Finished(r) =>
         \A t \in StoredTests(batches) : KeyOf(r, t) \in DOMAIN executed

C4_Witness ==
  /\ Finished(1)
  /\ \E b \in DOMAIN batches, s \in SubNames :
       /\ <<1, b, s, 2>> \in DOMAIN results
       /\ results[<<1, b, s, 1>>].fatal
       /\ executed[<<1, b, s, 2>>] = 1

\* C5: after runAllTests the failing count is the number of registered tests
\* whose status is not PASSED, and the verdict is "All test passed!" exactly
\* when that number is zero.
C5_AggregateVerdict ==
  (runs >= 1 /\ rpc = "main") =>
    LET notPassed ==
          { t \in StoredTests(batches) :
              /\ KeyOf(runs, t) \in DOMAIN results
              /\ results[KeyOf(runs, t)].status # PASSEDSTATUS }
    IN /\ \A t \in StoredTests(batches) : KeyOf(runs, t) \in DOMAIN results
       /\ failedTests = Cardinality(notPassed)
       /\ out[Len(out)] =
            Line(IF notPassed = { } THEN COMPLETESTATUSP ELSE COMPLETESTATUSF,
                 << >>, "")

C5_Witness ==
  /\ runs >= 1 /\ rpc = "main"
  /\ Cardinality(DOMAIN batches) = 2
  /\ failedTests = 2
  /\ out[Len(out)].tag = COMPLETESTATUSF

\* the statement the running body is about to execute is op
AtStmt(op) ==
  /\ rpc = "body"
  /\ pc <= Len(CurTest.func)
  /\ CurTest.func[pc].op = op
\* the statement has been executed and control is at the next statement
\* of the same body, with the counter grown by delta
Continues(delta) ==
  /\ rpc' = "body"
  /\ pc' = pc + 1
  /\ fatal' = FALSE
  /\ CurTest'.nrOfTestsFailed = CurTest.nrOfTestsFailed + delta
  /\ CurTest'.func = CurTest.func
\* the statement before the one the running body is at
PrevStmt == CurTest.func[pc - 1]
AfterStmt(op) == rpc = "body" /\ pc > 1 /\ PrevStmt.op = op

\* C6: EXPECT_ERRORTYPE(Kind, action) leaves the counter unchanged when the
\* action throws an object of kind Kind (Kind itself or a class derived from
\* it), adds exactly 1 when it throws an object of another kind or nothing,
\* and in every case control reaches the next statement of the body.
C6_ErrorType ==
  [][AtStmt("EXPECT_ERRORTYPE") =>
       LET thrown == CurTest.func[pc].inp1.throws
           kind == CurTest.func[pc].errType
       IN Continues(IF thrown = NoThrow THEN 1
                    ELSE IF thrown = kind THEN 0
                    ELSE IF thrown = "runtime_error" /\ kind = "exception" THEN 0
                    ELSE 1)]_vars

C6_Witness ==
  /\ AfterStmt("EXPECT_ERRORTYPE")
  /\ PrevStmt.errType = "double"
  /\ PrevStmt.inp1.throws = "int"
  /\ pc = 2
  /\ pc <= Len(CurTest.func)
  /\ CurTest.nrOfTestsFailed = entryFailed + 1

\* C7: EXPECT_LIFE(action) leaves the counter unchanged when the action
\* throws nothing and adds exactly 1 when it throws anything; the error does
\* not leave the assertion.
C7_Life ==
  [][AtStmt("EXPECT_LIFE") =>
       Continues(IF CurTest.func[pc].inp1.throws = NoThrow THEN 0 ELSE 1)]_vars

C7_Witness ==
  /\ AfterStmt("EXPECT_LIFE")
  /\ PrevStmt.inp1.throws = "runtime_error"
  /\ pc = 2
  /\ ~fatal
  /\ CurTest.nrOfTestsFailed = entryFailed + 1

\* C8: EXPECT_DEATH(action) adds exactly 1 to the counter when the action
\* throws nothing and leaves it unchanged when the action throws anything;
\* the error does not leave the assertion.
C8_Death ==
  [][AtStmt("EXPECT_DEATH") =>
       Continues(IF CurTest.func[pc].inp1.throws = NoThrow THEN 1 ELSE 0)]_vars

C8_Witness ==
  /\ AfterStmt("EXPECT_DEATH")
  /\ PrevStmt.inp1.throws = "int"
  /\ pc = 2
  /\ ~fatal
  /\ CurTest.nrOfTestsFailed = entryFailed

\* the check of an assertion is not met
Fails(stmt) ==
  LET raised == stmt.inp1.throws # NoThrow
  IN CASE stmt.op = "EXPECT_EQ" ->
            /\ ~raised /\ stmt.inp2.throws = NoThrow
            /\ stmt.inp1.val # stmt.inp2.val
       [] stmt.op = "EXPECT_TRUE" -> ~raised /\ stmt.inp1.val = 0
       [] stmt.op = "EXPECT_FALSE" -> ~raised /\ stmt.inp1.val # 0
       [] stmt.op = "EXPECT_LIFE" -> raised
       [] stmt.op = "EXPECT_DEATH" -> ~raised
       [] stmt.op = "EXPECT_ERRORTYPE" ->
            ~raised \/ ~( \/ stmt.inp1.throws = stmt.errType
                          \/ stmt.errType \in Bases(stmt.inp1.throws) )
       [] OTHER -> FALSE
NrFailing(func) == Cardinality({ i \in 1..Len(func) : Fails(func[i]) })
OnlyAssertions(func) == \A i \in 1..Len(func) : func[i].op \in AssertionOps
\* an operand of EXPECT_EQ, EXPECT_TRUE or EXPECT_FALSE throws
OperandThrows(stmt) ==
  /\ stmt.op \in { "EXPECT_EQ", "EXPECT_TRUE", "EXPECT_FALSE" }
  /\ (stmt.inp1.throws # NoThrow \/ stmt.inp2.throws # NoThrow)

\* C9 as claimed: a body made of n assertions of which m fail evaluates all n,
\* ends with the counter at exactly m, and no assertion throws out of it.
C9_AssertionsNeverHalt ==
  \A k \in DOMAIN results :
    LET r == results[k]
    IN OnlyAssertions(r.func) =>
         /\ ~r.fatal
         /\ r.reached = Len(r.func) + 1
         /\ r.nrOfTestsFailed = NrFailing(r.func)

\* C9 as amended: a body made of n assertions, of which m fail and in which no
\* operand of EXPECT_EQ, EXPECT_TRUE or EXPECT_FALSE throws, evaluates all n,
\* throws nothing, and ends with the counter m above its value at the start
\* of the body.
C9_FailingAssertionsNeverHalt ==
  \A k \in DOMAIN results :
    LET r == results[k]
    IN ( /\ OnlyAssertions(r.func)
         /\ \A i \in 1..Len(r.func) : ~OperandThrows(r.func[i]) ) =>
         /\ ~r.fatal
         /\ r.reached = Len(r.func) + 1
         /\ r.nrOfTestsFailed = r.entryFailed + NrFailing(r.func)

C9_Witness ==
  \E k \in DOMAIN results :
    LET r == results[k]
    IN /\ Len(r.func) = 2
       /\ r.func[1].op = "EXPECT_EQ" /\ Fails(r.func[1])
       /\ r.func[2].op = "EXPECT_ERRORTYPE" /\ Fails(r.func[2])
       /\ r.func[2].inp1.throws # NoThrow
       /\ ~r.fatal
       /\ r.reached = 3
       /\ r.entryFailed = 2
       /\ r.nrOfTestsFailed = 4

\* C10: registration accumulates: every (batch, subbatch) pair holds, in call
\* order, one Test per registerTest call addressed to it, the registry holds
\* as many tests as there were calls, and a finished run has run them all.
C10_RegistrationAccumulates ==
  /\ \A b \in BatchNames, s \in SubNames :
       LET stored == IF b \in DOMAIN batches /\ s \in DOMAIN batches[b].subbatches
                     THEN batches[b].subbatches[s].tests
                     ELSE << >>
       IN /\ Len(stored) = Len(calls[<<b, s>>])
          /\ \A i \in 1..Len(stored) : stored[i].name = calls[<<b, s>>][i]
  /\ Cardinality(StoredTests(batches)) = NrCalls
  /\ \A r \in 1..runs :
       Finished(r) =>
         \A b \in BatchNames, s \in SubNames :
           \A i \in 1..Len(calls[<<b, s>>]) : <<r, b, s, i>> \in DOMAIN results

C10_Witness ==
  /\ Finished(1)
  /\ \E b \in BatchNames, s \in SubNames :
       /\ Len(calls[<<b, s>>]) = 2
       /\ calls[<<b, s>>][1] = calls[<<b, s>>][2]
       /\ Len(batches[b].subbatches[s].tests) = 2
       /\ batches[b].subbatches[s].tests[1].func # batches[b].subbatches[s].tests[2].func
       /\ <<1, b, s, 1>> \in DOMAIN results
       /\ <<1, b, s, 2>> \in DOMAIN results

\* ------------------------------------------------------------------ C11
\* position of a stored test in the order a run visits the tests
PosIn(seq, t) == CHOOSE n \in 1..Len(seq) : seq[n] = t
TestName(container, t) == container[t[1]].subbatches[t[2]].tests[t[3]].name

\* insertion order at all three levels: a test just registered is visited after
\* every test that was already in the innermost collection it was added to
\* (its subbatch; if that is new, its batch; if that is new, the registry)
InsertedLast ==
  \A t \in StoredTests(batches') \ StoredTests(batches) :
    \A o \in StoredTests(batches) :
      LET sameCollection ==
            IF t[1] \notin DOMAIN batches THEN TRUE
            ELSE IF t[2] \notin DOMAIN batches[t[1]].subbatches THEN o[1] = t[1]
            ELSE o[1] = t[1] /\ o[2] = t[2]
      IN sameCollection =>
           PosIn(VisitSeq(batches'), o) < PosIn(VisitSeq(batches'), t)

\* lexicographic order at all three levels: by batch name, then by subbatch
\* name, then by test name
ByNameBefore(container, t, o) ==
  \/ LexLess(t[1], o[1])
  \/ t[1] = o[1] /\ LexLess(t[2], o[2])
  \/ t[1] = o[1] /\ t[2] = o[2]
       /\ ~LexLess(TestName(container, o), TestName(container, t))
LexicographicAtAllLevels(container) ==
  LET seq == VisitSeq(container)
  IN \A m, n \in 1..Len(seq) : m < n => ByNameBefore(container, seq[m], seq[n])

\* C11 as stated: the visiting order follows one discipline at all three
\* levels, so every registration either puts the new test last in the
\* collection it joins (insertion order) or leaves the tests in lexicographic
\* order by batch, subbatch and test name.
C11_UniformOrder ==
  [][InsertedLast \/ LexicographicAtAllLevels(batches')]_vars

\* the order that holds: by batch name, then by subbatch name, then by
\* position in the subbatch's vector
VisitedBefore(t, o) ==
  \/ LexLess(t[1], o[1])
  \/ t[1] = o[1] /\ LexLess(t[2], o[2])
  \/ t[1] = o[1] /\ t[2] = o[2] /\ t[3] < o[3]

\* C11 (amended): a run visits the batches in lexicographic order of their
\* names, the subbatches of a batch in lexicographic order of their names, and
\* the tests of a subbatch in the order they were registered; a finished run
\* has visited every stored test once, in that order.
C11_MapsByNameTestsByRegistration ==
  /\ \A m, n \in 1..Len(visited) : m < n => VisitedBefore(visited[m], visited[n])
  /\ \A m \in 1..Len(visited) :
       TestName(batches, visited[m]) =
         calls[<< visited[m][1], visited[m][2] >>][visited[m][3]]
  /\ Finished(runs) =>
       /\ visited = VisitSeq(batches)
       /\ { visited[m] : m \in 1..Len(visited) } = StoredTests(batches)

C11_Witness ==
  /\ Finished(runs)
  /\ Cardinality(DOMAIN batches) = 2
  /\ Len(visited) = 3
  /\ \E b \in DOMAIN batches : \E sb \in DOMAIN batches[b].subbatches :
       /\ Len(batches[b].subbatches[sb].tests) = 2
       /\ batches[b].subbatches[sb].tests[1].name = <<117>>
       /\ batches[b].subbatches[sb].tests[2].name = <<116>>
       /\ PosIn(visited, <<b, sb, 1>>) < PosIn(visited, <<b, sb, 2>>)

\* ------------------------------------------------------------------ C12
\* C12: results do not persist across runs: in a second or later run every
\* test starts with failure counter 0 and is reported with the status and the
\* failure count it had in the first run.
C12_NoPersistence ==
  \A k \in DOMAIN results :
    k[1] >= 2 =>
      LET first == results[KeyOf(1, << k[2], k[3], k[4] >>)]
      IN /\ results[k].entryFailed = 0
         /\ results[k].status = first.status
         /\ results[k].mid = first.mid

\* ------------------------------------------------------------------ C13
\* what registration fixes: the batches, their subbatches, and the names and
\* bodies of the tests of each subbatch, in order
Shape(container) ==
  [b \in DOMAIN container |->
    [sb \in DOMAIN container[b].subbatches |->
      [i \in 1..Len(container[b].subbatches[sb].tests) |->
        [name |-> container[b].subbatches[sb].tests[i].name,
         func |-> container[b].subbatches[sb].tests[i].func]]]]

\* C13: from the start of runAllTests on, no step changes the set of batches,
\* the set of subbatches of a batch or the names and bodies of the tests of a
\* subbatch; they change only before the first run starts, and what a run
\* changes in the registry is the tests' failure counters alone.
C13_RegistryReadOnlyInRun ==
  [][Shape(batches') # Shape(batches) => rpc = "static_init" /\ runs = 0]_vars

C13_Witness ==
  /\ Finished(2)
  /\ Cardinality(StoredTests(batches)) = 2
  /\ \E t \in StoredTests(batches) :
       batches[t[1]].subbatches[t[2]].tests[t[3]].nrOfTestsFailed > 0

\* ------------------------------------------------------------------ C14
\* the tests of batch b the current run has found failing or flawed, in the
\* order it visited them
NotPassed(t) ==
  LET r == results[KeyOf(runs, t)]
  IN r.nrOfTestsFailed > 0 \/ r.fatal
NotPassedIn(b) ==
  LET hit(t) == t[1] = b /\ NotPassed(t)
  IN SelectSeq(visited, hit)
\* what the TERSE build has written for batch b
TerseLinesOf(b) ==
  LET ofGroup(item) == item.group = b
      items == SelectSeq(terseOut, ofGroup)
  IN [n \in 1..Len(items) |-> items[n].line]

TerminalTags == { PASSEDSTATUS, FAILEDSTATUS, FLAWEDSTATUS }
Positions(tags) == { p \in 1..Len(out) : out[p].tag \in tags }
InBody == rpc \in { "body", "classify" }

\* the lines of the tests alternate: RUNNING, then (once the body is over) the
\* clearing of that line and one status line for the same test, and only then
\* the next RUNNING line; a body runs only under its own RUNNING line, once
\* per run
OneAtATime ==
  /\ \A p \in Positions({ RUNNINGSTATUS }) :
       /\ p + 1 <= Len(out) => out[p + 1].tag = CONSOLECLEARLASTLINE
       /\ p + 2 <= Len(out) => /\ out[p + 2].tag \in TerminalTags
                                /\ out[p + 2].name = out[p].name
       /\ p = Len(out) => InBody
       /\ p + 1 # Len(out)
  /\ \A p \in Positions(TerminalTags) :
       /\ p >= 3
       /\ out[p - 2].tag = RUNNINGSTATUS
  /\ InBody => /\ out # << >>
               /\ out[Len(out)] = Line(RUNNINGSTATUS, CurTest.name, "")
               /\ CurKey \notin DOMAIN results
  /\ Cardinality(Positions(TerminalTags)) = Cardinality(DOMAIN results)
  /\ Cardinality(Positions({ RUNNINGSTATUS })) =
       Cardinality(DOMAIN results) + (IF InBody THEN 1 ELSE 0)
  /\ \A k \in DOMAIN executed : executed[k] = 1
  /\ \A k \in DOMAIN results :
       results[k].status = IF results[k].nrOfTestsFailed # 0 THEN FAILEDSTATUS
                           ELSE IF results[k].fatal THEN FLAWEDSTATUS
                           ELSE PASSEDSTATUS

\* the run is over: every registered test has its status and the verdict is
\* the last line
RunComplete ==
  /\ rpc = "main"
  /\ \A t \in StoredTests(batches) : KeyOf(runs, t) \in DOMAIN results
  /\ out # << >>
  /\ out[Len(out)].tag \in { COMPLETESTATUSF, COMPLETESTATUSP }

\* C15: each test goes from not run to running to passed, failed or flawed once
\* per run and one test at a time: its RUNNING line precedes its body, one
\* status line follows its body and precedes the next RUNNING line; and a run
\* that has started reaches the point where every registered test has a
\* status and the verdict is the last line written.
C15_Lifecycle ==
  /\ []OneAtATime
  /\ (rpc = "container") ~> RunComplete

C15_Witness ==
  /\ RunComplete
  /\ runs = 2
  /\ Cardinality(StoredTests(batches)) = 2
  /\ { results[k].status : k \in RunResults(2) } = { PASSEDSTATUS, FLAWEDSTATUS }

\* ------------------------------------------------------------------ C16
Counter(container, t) == container[t[1]].subbatches[t[2]].tests[t[3]].nrOfTestsFailed

\* C16: a step changes the failure counter of a stored test only while the body
\* of that very test is running; the counter of every other test, one of the
\* same name in another batch or subbatch included, is left as it was.
C16_OwnCounterOnly ==
  [][\A t \in StoredTests(batches) :
       Counter(batches', t) # Counter(batches, t) =>
         rpc = "body" /\ t = << Head(bq), Head(sq), ti >>]_vars

C16_Witness ==
  /\ Finished(1)
  /\ \E t, o \in StoredTests(batches) :
       /\ t[1] # o[1]
       /\ TestName(batches, t) = TestName(batches, o)
       /\ batches[t[1]].subbatches[t[2]].tests[t[3]].func = BodyFail
       /\ batches[o[1]].subbatches[o[2]].tests[o[3]].func = BodyFail
       /\ Counter(batches, t) = 2
       /\ Counter(batches, o) = 2
       /\ results[KeyOf(1, t)].entryFailed = 0
       /\ results[KeyOf(1, o)].entryFailed = 0

\* ------------------------------------------------------------------ C17
\* C17: the failure counter of a test is never negative and is 0 until the
\* first run starts; a step changes it only by executing one of the EXPECT_*
\* assertions, which adds 1 to it or leaves it as it is; no step of the runner
\* changes it, so it never decreases and is never set back to 0.
C17_CounterDiscipline ==
  [][\A t \in StoredTests(batches) :
       /\ Counter(batches, t) >= 0
       /\ runs = 0 => Counter(batches, t) = 0
       /\ Counter(batches', t) \in { Counter(batches, t), Counter(batches, t) + 1 }
       /\ Counter(batches', t) # Counter(batches, t) =>
            /\ rpc = "body"
            /\ pc <= Len(CurTest.func)
            /\ CurTest.func[pc].op \in AssertionOps]_vars

C17_Witness ==
  /\ Finished(2)
  /\ \E t \in StoredTests(batches) :
       /\ batches[t[1]].subbatches[t[2]].tests[t[3]].func =
            << Expect_ERRORTYPE("double", Throw("int")), Expect_DEATH(Value(0)) >>
       /\ results[KeyOf(1, t)].nrOfTestsFailed = 2
       /\ results[KeyOf(2, t)].entryFailed = 2
       /\ Counter(batches, t) = 4

\* ------------------------------------------------------------------ C18
\* C18: every batch of the registry has at least one subbatch and every
\* subbatch at least one test, so the batch Batch::run is about to read
\* subbatches.begin() of has a first subbatch; and a run of the empty
\* registry enters no batch, runs no test and prints the all-passed verdict.
C18_NoEmptyGroups ==
  /\ \A b \in DOMAIN batches :
       /\ DOMAIN batches[b].subbatches # { }
       /\ \A sb \in DOMAIN batches[b].subbatches :
            Len(batches[b].subbatches[sb].tests) >= 1
  /\ rpc = "container" /\ bq # << >> =>
       /\ DOMAIN CurBatch.subbatches # { }
       /\ Cardinality(PrintSBNames(CurBatch.subbatches)) = 1
  /\ batches = << >> =>
       /\ rpc \in { "static_init", "container", "main" }
       /\ bq = << >>
       /\ results = << >> /\ executed = << >>
       /\ failedTests = 0
       /\ \A p \in 1..Len(out) : out[p] = Line(COMPLETESTATUSP, << >>, "")
       /\ Len(out) = IF rpc = "container" THEN runs - 1 ELSE runs

C18_Witness ==
  /\ rpc = "batch"
  /\ sq # << >>
  /\ Cardinality(DOMAIN batches) = 2
  /\ Cardinality(DOMAIN CurBatch.subbatches) = 1
  /\ Len(CurSubbatch.tests) = 1
  /\ Len(Head(sq)) = 0
  /\ printSBNames = FALSE

\* ------------------------------------------------------------------ C19
\* the step is the registerTest call of a JTEST(testname)
RegistersByJTEST1 == jtests' # jtests /\ lastCall'.macro = "JTEST1"
\* the step is Batch::run reaching its next subbatch
ReachesSubbatch == rpc = "batch" /\ rpc' = "subbatch"
\* the header of the subbatch Batch::run has reached
Header == Line("<>", IF Head(sq) = << >> THEN MISC ELSE Head(sq), "")

\* C19: the test of a JTEST(testname) is appended to the subbatch named "" of
\* its batch; and on reaching a subbatch Batch::run prints its header exactly
\* when the batch has more than one subbatch or the name of its only subbatch
\* is not empty, the header of the subbatch named "" reading MISC.
C19_MiscSubbatch ==
  [][/\ RegistersByJTEST1 =>
          LET b == lastCall'.batchname
              n == Len(batches'[b].subbatches[<< >>].tests)
          IN /\ StoredTests(batches') \ StoredTests(batches) = { << b, << >>, n >> }
             /\ batches'[b].subbatches[<< >>].tests[n].name = lastCall'.name
     /\ ReachesSubbatch =>
          IF \/ Cardinality(DOMAIN CurBatch.subbatches) > 1
             \/ DOMAIN CurBatch.subbatches # { << >> }
          THEN out' = Append(out, Header)
          ELSE out' = out]_vars

C19_Witness ==
  /\ rpc = "subbatch"
  /\ ti = 1
  /\ DOMAIN CurBatch.subbatches = SubNames
  /\ Head(sq) = << >>
  /\ Len(calls[<< Head(bq), << >> >>]) = 1
  /\ out # << >>
  /\ out[Len(out)] = Line("<>", MISC, "")

====
